---- MODULE Spec2Model ----
(***************************************************************************)
(* A model of solveSlider (src/hw1.py): A* search over the boards of the   *)
(* n x n sliding puzzle with the Manhattan-distance heuristic, an open     *)
(* list that is re-sorted by priority before every pop, and a best-cost    *)
(* table.                                                                  *)
(*                                                                         *)
(* A Python tuple t of length L is the sequence s with s[i+1] = t[i]; all  *)
(* index arithmetic below is done on the 0-based Python indices.           *)
(***************************************************************************)
EXTENDS Integers, Sequences, FiniteSets, TLC

VARIABLES
    size,       \* the argument size
    start,      \* tuple(grid), the argument board
    pc,         \* "init" (not yet called), "searching", "solved", "exhausted", "error";
                \* "neighbors", "heuristic" when a nested function was applied on its own
    open_set,   \* list of entries [priority, counter, state, moves]
    counter,    \* the insertion counter
    best_cost,  \* dict: board -> smallest g-cost found so far
    result,     \* the returned value: the move list (<<>> until the call returns)
    current,    \* history: <<>> or <<[entry, cost]>>, the entry popped by the last iteration
                \*          and current_cost = best_cost[current_state] read at line 86
    popped,     \* history: the boards popped as current_state so far
    inserted    \* history: the entries appended by the last step, each with
                \*          best_cost[entry board] as it was right after the append

vars == <<size, start, pc, open_set, counter, best_cost, result, current, popped, inserted>>

-----------------------------------------------------------------------------
(* Bounds of the model *)

\* boards of sizes 1..MaxSize are drawn
MaxSize == 3
\* boards are drawn within MaxScramble slides of an anchor board
MaxScramble == 6

-----------------------------------------------------------------------------
(* Pure helpers of solveSlider *)

Abs(x) == IF x < 0 THEN -x ELSE x

\* goal with the blank in the last cell instead of the first
goal_blank_last(n) == [i \in 1..(n * n) |-> IF i = n * n THEN 0 ELSE i]

\* goal = tuple(range(size * size))
goal(n) == [i \in 1..(n * n) |-> i - 1]

\* divmod with its two results exchanged: (column, row)
divmod_swapped(idx, n) == <<idx % n, idx \div n>>

\* divmod(idx, size)
divmod(idx, n) == <<idx \div n, idx % n>>

\* tile_distance without the test tile != 0: the blank is counted as a tile
tile_distance_with_blank(n, state, idx) ==
    LET tile == state[idx + 1]
        cur  == divmod(idx, n)
        gl   == divmod(tile, n)
    IN  Abs(cur[1] - gl[1]) + Abs(cur[2] - gl[2])

\* the Manhattan distance of the tile at index idx to its goal cell; 0 for the blank
tile_distance(n, state, idx) ==
    LET tile == state[idx + 1]
    IN  IF tile # 0
        THEN LET cur == divmod(idx, n)
                 gl  == divmod(tile, n)
             IN  Abs(cur[1] - gl[1]) + Abs(cur[2] - gl[2])
        ELSE 0

RECURSIVE heuristic_from(_, _, _)
heuristic_from(n, state, idx) ==
    IF idx >= Len(state)
    THEN 0
    ELSE tile_distance(n, state, idx) + heuristic_from(n, state, idx + 1)

\* heuristic(state): total = sum over enumerate(state)
heuristic(n, state) == heuristic_from(n, state, 0)

\* state.index(v): the smallest index holding v (-1 stands for ValueError)
index(state, v) ==
    IF \E i \in 0..(Len(state) - 1) : state[i + 1] = v
    THEN CHOOSE i \in 0..(Len(state) - 1) :
            /\ state[i + 1] = v
            /\ \A j \in 0..(i - 1) : state[j + 1] # v
    ELSE -1

\* adjacent_positions with the right-hand bound off by one (col < size - 2)
adjacent_positions_short(n, row, col) ==
       (IF row > 0     THEN << <<row - 1, col>> >> ELSE <<>>)
    \o (IF row < n - 1 THEN << <<row + 1, col>> >> ELSE <<>>)
    \o (IF col > 0     THEN << <<row, col - 1>> >> ELSE <<>>)
    \o (IF col < n - 2 THEN << <<row, col + 1>> >> ELSE <<>>)

\* adjacent_positions scanning left, right before up, down
adjacent_positions_reordered(n, row, col) ==
       (IF col > 0     THEN << <<row, col - 1>> >> ELSE <<>>)
    \o (IF col < n - 1 THEN << <<row, col + 1>> >> ELSE <<>>)
    \o (IF row > 0     THEN << <<row - 1, col>> >> ELSE <<>>)
    \o (IF row < n - 1 THEN << <<row + 1, col>> >> ELSE <<>>)

\* the in-bounds cells next to (row, col), scanned up, down, left, right
adjacent_positions(n, row, col) ==
       (IF row > 0     THEN << <<row - 1, col>> >> ELSE <<>>)
    \o (IF row < n - 1 THEN << <<row + 1, col>> >> ELSE <<>>)
    \o (IF col > 0     THEN << <<row, col - 1>> >> ELSE <<>>)
    \o (IF col < n - 1 THEN << <<row, col + 1>> >> ELSE <<>>)

\* state_list[empty_index], state_list[neighbor_index] = (swapped)
swap(state, i, j) ==
    [k \in 1..Len(state) |->
        IF k = i + 1 THEN state[j + 1]
        ELSE IF k = j + 1 THEN state[i + 1]
        ELSE state[k]]

\* get_neighbors reading moved_tile at empty_index instead of neighbor_index
get_neighbors_blank_tile(n, state) ==
    LET empty_index == index(state, 0)
        rc  == divmod(empty_index, n)
        adj == adjacent_positions(n, rc[1], rc[2])
    IN  [k \in 1..Len(adj) |->
            LET neighbor_index == adj[k][1] * n + adj[k][2]
            IN  <<swap(state, empty_index, neighbor_index), state[empty_index + 1]>>]

\* get_neighbors(state): the list of <<neighbor_state, moved_tile>>
get_neighbors(n, state) ==
    LET empty_index == index(state, 0)
        rc  == divmod(empty_index, n)
        adj == adjacent_positions(n, rc[1], rc[2])
    IN  [k \in 1..Len(adj) |->
            LET neighbor_index == adj[k][1] * n + adj[k][2]
            IN  <<swap(state, empty_index, neighbor_index), state[neighbor_index + 1]>>]

-----------------------------------------------------------------------------
(* The open list and the best-cost table *)

\* an entry of open_set: (priority, counter, state, moves)
Entry(p, c, s, m) == [priority |-> p, counter |-> c, state |-> s, moves |-> m]

RECURSIVE sort_from(_, _, _)
sort_from(list, p, hi) ==
    IF p > hi
    THEN <<>>
    ELSE SelectSeq(list, LAMBDA e : e.priority = p) \o sort_from(list, p + 1, hi)

RECURSIVE sort_down_from(_, _, _)
sort_down_from(list, p, lo) ==
    IF p < lo
    THEN <<>>
    ELSE SelectSeq(list, LAMBDA e : e.priority = p) \o sort_down_from(list, p - 1, lo)

\* the sort with reverse=True: largest priority first
sort_descending(list) ==
    IF list = <<>>
    THEN <<>>
    ELSE LET ps == {list[i].priority : i \in 1..Len(list)}
             lo == CHOOSE p \in ps : \A q \in ps : p <= q
             hi == CHOOSE p \in ps : \A q \in ps : q <= p
         IN  sort_down_from(list, hi, lo)

RECURSIVE reversed(_)
reversed(list) ==
    IF list = <<>> THEN <<>> ELSE Append(reversed(Tail(list)), Head(list))

RECURSIVE sort_ties_from(_, _, _)
sort_ties_from(list, p, hi) ==
    IF p > hi
    THEN <<>>
    ELSE reversed(SelectSeq(list, LAMBDA e : e.priority = p))
         \o sort_ties_from(list, p + 1, hi)

\* a sort by priority that is not stable: entries of equal priority come out in
\* the reverse of their order in the list
sort_ties_reversed(list) ==
    IF list = <<>>
    THEN <<>>
    ELSE LET ps == {list[i].priority : i \in 1..Len(list)}
             lo == CHOOSE p \in ps : \A q \in ps : p <= q
             hi == CHOOSE p \in ps : \A q \in ps : q <= p
         IN  sort_ties_from(list, lo, hi)

\* open_set.sort(key=lambda x: x[0]): list.sort is stable, so entries of equal
\* priority keep their relative order
sort_by_priority(list) ==
    IF list = <<>>
    THEN <<>>
    ELSE LET ps == {list[i].priority : i \in 1..Len(list)}
             lo == CHOOSE p \in ps : \A q \in ps : p <= q
             hi == CHOOSE p \in ps : \A q \in ps : q <= p
         IN  sort_from(list, lo, hi)

\* open_set[0] read without pop(0): the entry stays in the list
rest_keeping_head(sorted) == sorted

\* what open_set.pop(0) leaves in the list
rest_after_pop(sorted) == Tail(sorted)

\* improves without the cost comparison: only boards never reached are taken
improves_unseen(neighbor, new_cost, best) ==
    neighbor \notin DOMAIN best

\* improves with <= in place of <
improves_or_equal(neighbor, new_cost, best) ==
    \/ neighbor \notin DOMAIN best
    \/ new_cost <= best[neighbor]

\* neighbor not in best_cost or new_cost < best_cost[neighbor]
improves(neighbor, new_cost, best) ==
    \/ neighbor \notin DOMAIN best
    \/ new_cost < best[neighbor]

\* the assignment best_cost[neighbor] = new_cost left out
put_nothing(best, board, cost) == best

\* best_cost[neighbor] = new_cost
put(best, board, cost) ==
    [b \in (DOMAIN best) \cup {board} |-> IF b = board THEN cost ELSE best[b]]

\* the loop body with the priority computed from the parent's cost
\* (current_cost + heuristic(neighbor)) instead of new_cost
expand_one_parent_priority(n, neighbor, moved_tile, path, current_cost, acc) ==
    LET new_cost == current_cost + 1
    IN  IF improves(neighbor, new_cost, acc.best)
        THEN LET best2    == put(acc.best, neighbor, new_cost)
                 priority == current_cost + heuristic(n, neighbor)
                 c2       == acc.counter + 1
                 e        == Entry(priority, c2, neighbor, Append(path, moved_tile))
             IN  [open    |-> Append(acc.open, e),
                  best    |-> best2,
                  counter |-> c2,
                  log     |-> Append(acc.log, [entry |-> e, cost |-> best2[neighbor]])]
        ELSE acc

\* the body of the for loop, lines 94-99; acc carries open_set, best_cost, counter
\* and the log of the appends
expand_one(n, neighbor, moved_tile, path, current_cost, acc) ==
    LET new_cost == current_cost + 1
    IN  IF improves(neighbor, new_cost, acc.best)
        THEN LET best2    == put(acc.best, neighbor, new_cost)
                 priority == new_cost + heuristic(n, neighbor)
                 c2       == acc.counter + 1
                 e        == Entry(priority, c2, neighbor, Append(path, moved_tile))
             IN  [open    |-> Append(acc.open, e),
                  best    |-> best2,
                  counter |-> c2,
                  log     |-> Append(acc.log, [entry |-> e, cost |-> best2[neighbor]])]
        ELSE acc

RECURSIVE expand(_, _, _, _, _, _)
\* the for loop over get_neighbors(current_state), from its k-th element on
\* (the one-element set makes TLC compute each intermediate acc once)
expand(n, nbrs, k, path, current_cost, acc) ==
    IF k > Len(nbrs)
    THEN acc
    ELSE CHOOSE out \in {expand(n, nbrs, k + 1, path, current_cost, a)
                         : a \in {expand_one(n, nbrs[k][1], nbrs[k][2], path,
                                             current_cost, acc)}} : TRUE

-----------------------------------------------------------------------------
(* The boards one legal slide away, written from the rules of the puzzle   *)
(* (not from get_neighbors), and exhaustive breadth-first search over them *)

Cells(n) == 0..(n * n - 1)

Adjacent(n, i, j) ==
    Abs((i \div n) - (j \div n)) + Abs((i % n) - (j % n)) = 1

Slides(n, b) ==
    LET i == CHOOSE c \in Cells(n) : b[c + 1] = 0
    IN  {[k \in 1..(n * n) |->
            IF k = i + 1 THEN b[j + 1] ELSE IF k = j + 1 THEN 0 ELSE b[k]]
         : j \in {c \in Cells(n) : Adjacent(n, i, c)}}

RECURSIVE Within(_, _, _, _)
\* the boards within k slides of the boards of seen (frontier is the last level)
Within(n, frontier, seen, k) ==
    IF k = 0 \/ frontier = {}
    THEN seen
    ELSE LET next == (UNION {Slides(n, b) : b \in frontier}) \ seen
         IN  Within(n, next, seen \cup next, k - 1)

RECURSIVE BFS(_, _, _, _, _)
BFS(n, frontier, seen, target, d) ==
    IF target \in frontier
    THEN d
    ELSE LET next == (UNION {Slides(n, b) : b \in frontier}) \ seen
         IN  IF next = {} THEN -1 ELSE BFS(n, next, seen \cup next, target, d + 1)

\* the true shortest number of slides from board a to board b; -1 if there is none
Distance(n, a, b) == BFS(n, {a}, {a}, b, 0)

-----------------------------------------------------------------------------
(* Inputs: well-formed boards *)

\* the board [0, 1, ..., n*n-1]
Ascending(n) == [i \in 1..(n * n) |-> i - 1]

\* the goal with tiles 1 and 2 exchanged: a board of the other parity class
OddAnchor(n) == [i \in 1..(n * n) |-> IF i = 2 THEN 2 ELSE IF i = 3 THEN 1 ELSE i - 1]

\* sizes whose unsolvable component ((n*n)!/2 boards) a run can exhaust
ExhaustibleSizes == {2}

\* the boards of the concrete scenarios, and one whose run pops a stale entry
Scenario2 == <<1, 0, 2, 3>>
Scenario3 == <<1, 2, 3, 4, 0, 5, 6, 7, 8>>
StaleBoard3 == <<5, 4, 0, 3, 2, 1, 6, 7, 8>>

Inputs ==
    UNION {
        {[size |-> n, board |-> b] : b \in Within(n, {Ascending(n)}, {Ascending(n)}, MaxScramble)}
        \cup (IF n \in ExhaustibleSizes
              THEN {[size |-> n, board |-> b]
                    : b \in Within(n, {OddAnchor(n)}, {OddAnchor(n)}, MaxScramble)}
              ELSE {})
        : n \in 1..MaxSize }
    \cup {[size |-> 2, board |-> Scenario2],
          [size |-> 3, board |-> Scenario3],
          [size |-> 3, board |-> StaleBoard3]}

-----------------------------------------------------------------------------
(* The state machine *)

Init ==
    /\ \E in \in Inputs : size = in.size /\ start = in.board
    /\ pc = "init"
    /\ open_set = <<>>
    /\ counter = 0
    /\ best_cost = [b \in {} |-> 0]
    /\ result = <<>>
    /\ current = <<>>
    /\ popped = {}
    /\ inserted = <<>>

\* lines 18-23: the board is already the goal
ReturnSolved ==
    /\ pc = "init"
    /\ start = goal(size)
    /\ pc' = "solved"
    /\ result' = <<>>
    /\ UNCHANGED <<size, start, open_set, counter, best_cost, current, popped, inserted>>

\* lines 74-80: seed the open list and the best-cost table
Seed ==
    /\ pc = "init"
    /\ start # goal(size)
    /\ LET start_cost     == 0
           start_priority == start_cost + heuristic(size, start)
           e              == Entry(start_priority, 0, start, <<>>)
       IN  /\ open_set' = <<e>>
           /\ counter' = 0
           /\ best_cost' = put([b \in {} |-> 0], start, 0)
           /\ inserted' = <<[entry |-> e, cost |-> 0]>>
    /\ pc' = "searching"
    /\ UNCHANGED <<size, start, result, current, popped>>

\* lines 82-99: one iteration of the while loop
Iterate ==
    /\ pc = "searching"
    /\ open_set # <<>>
    /\ \E sorted \in {sort_by_priority(open_set)} :
         LET e    == Head(sorted)
             rest == rest_after_pop(sorted)
         IN  IF e.state \notin DOMAIN best_cost \/ index(e.state, 0) = -1
             THEN \* KeyError at line 86, ValueError at line 48
                  /\ pc' = "error"
                  /\ open_set' = rest
                  /\ UNCHANGED <<counter, best_cost, result, current, popped, inserted>>
             ELSE LET current_cost == best_cost[e.state]
                  IN  /\ current' = <<[entry |-> e, cost |-> current_cost]>>
                      /\ popped' = popped \cup {e.state}
                      /\ IF e.state = goal(size)
                         THEN /\ pc' = "solved"
                              /\ result' = e.moves
                              /\ open_set' = rest
                              /\ inserted' = <<>>
                              /\ UNCHANGED <<counter, best_cost>>
                         ELSE \E nbrs \in {get_neighbors(size, e.state)} :
                              \E acc \in {expand(size, nbrs, 1, e.moves, current_cost,
                                                 [open |-> rest, best |-> best_cost,
                                                  counter |-> counter, log |-> <<>>])} :
                                  /\ open_set' = acc.open
                                  /\ best_cost' = acc.best
                                  /\ counter' = acc.counter
                                  /\ inserted' = acc.log
                                  /\ UNCHANGED <<pc, result>>
    /\ UNCHANGED <<size, start>>

\* lines 82 and 102: the open list is empty
ReturnEmpty ==
    /\ pc = "searching"
    /\ open_set = <<>>
    /\ pc' = "exhausted"
    /\ result' = <<>>
    /\ UNCHANGED <<size, start, open_set, counter, best_cost, current, popped, inserted>>

Next == ReturnSolved \/ Seed \/ Iterate \/ ReturnEmpty

Spec == Init /\ [][Next]_vars

\* the call runs to its return: a single-threaded loop that is never suspended
FairSpec == Init /\ [][Next]_vars /\ WF_vars(Next)

-----------------------------------------------------------------------------
(* The two nested functions applied on their own to an input board: result  *)
(* holds the value the function returns                                     *)

\* lines 39-69: get_neighbors(start)
ApplyNeighbors ==
    /\ pc = "init"
    /\ pc' = "neighbors"
    /\ result' = get_neighbors(size, start)
    /\ UNCHANGED <<size, start, open_set, counter, best_cost, current, popped, inserted>>

\* lines 25-37: heuristic(start)
ApplyHeuristic ==
    /\ pc = "init"
    /\ pc' = "heuristic"
    /\ result' = heuristic(size, start)
    /\ UNCHANGED <<size, start, open_set, counter, best_cost, current, popped, inserted>>

PureNext == ApplyNeighbors \/ ApplyHeuristic

PureSpec == Init /\ [][PureNext]_vars

-----------------------------------------------------------------------------
(* Properties *)

Returned == pc \in {"solved", "exhausted"}

\* the goal can be reached from the start board by legal slides
Solvable == Distance(size, start, Ascending(size)) # -1

\* the board after sliding tile into the blank; <<>> if the slide is not legal
Slide(n, b, tile) ==
    IF b = <<>> \/ tile = 0 \/ ~(\E c \in Cells(n) : b[c + 1] = tile)
    THEN <<>>
    ELSE LET i == CHOOSE c \in Cells(n) : b[c + 1] = 0
             j == CHOOSE c \in Cells(n) : b[c + 1] = tile
         IN  IF Adjacent(n, i, j)
             THEN [k \in 1..(n * n) |->
                     IF k = i + 1 THEN tile ELSE IF k = j + 1 THEN 0 ELSE b[k]]
             ELSE <<>>

RECURSIVE Replay(_, _, _)
\* the board after the moves, applied in order; <<>> if one of them is not legal
Replay(n, b, moves) ==
    IF moves = <<>> THEN b ELSE Replay(n, Slide(n, b, Head(moves)), Tail(moves))

\* C1: when the call returns for a board from which the goal is reachable, the
\* number of returned moves is the breadth-first distance from the board to the goal
Optimality ==
    (Returned /\ Solvable) => Len(result) = Distance(size, start, Ascending(size))

\* the 2x2 scenario [1,0,2,3] has returned its one move
OptimalityWitness ==
    /\ pc = "solved"
    /\ size = 2
    /\ start = Scenario2
    /\ result = <<1>>

\* C2: when the call returns for a solvable board, replaying the returned moves
\* from the input board, each a slide of a tile next to the blank, gives the goal
Validity ==
    (Returned /\ Solvable) => Replay(size, start, result) = Ascending(size)

\* a run that returned at least two moves whose replay is the goal
ValidityWitness ==
    /\ pc = "solved"
    /\ Len(result) >= 2
    /\ Replay(size, start, result) = Ascending(size)

\* C3: when the call returns for a board from which the goal is not reachable, it
\* returns the empty list from the exhausted state, the open list is empty, and
\* every board reachable from the start board has been popped
Unsolvable ==
    (Returned /\ ~Solvable) =>
        /\ pc = "exhausted"
        /\ result = <<>>
        /\ open_set = <<>>
        /\ Within(size, {start}, {start}, -1) \subseteq popped

\* an unsolvable 2x2 board was exhausted: all 12 boards of its component were popped
UnsolvableWitness ==
    /\ pc = "exhausted"
    /\ ~Solvable
    /\ Cardinality(popped) = 12

\* C4: called with the goal board, the call returns the empty list at once:
\* nothing was put in the open list or the best-cost table and nothing was popped
AlreadySolved ==
    (pc # "init" /\ start = Ascending(size)) =>
        /\ pc = "solved"
        /\ result = <<>>
        /\ open_set = <<>>
        /\ DOMAIN best_cost = {}
        /\ counter = 0
        /\ popped = {}
        /\ current = <<>>
        /\ inserted = <<>>

\* the 1x1 goal board [0] has returned
AlreadySolvedWitness ==
    /\ pc = "solved"
    /\ size = 1
    /\ start = <<0>>
    /\ result = <<>>

\* the shape of the control states: no error state; a run that entered the loop is
\* solved only by popping an entry whose board is the goal, and returns its path;
\* an exhausted run returned [] with an empty open list
OutcomeShape ==
    /\ pc \in {"init", "searching", "solved", "exhausted"}
    /\ (pc \in {"init", "searching"}) => result = <<>>
    /\ (pc = "solved" /\ start # Ascending(size)) =>
          /\ current # <<>>
          /\ current[1].entry.state = Ascending(size)
          /\ result = current[1].entry.moves
    /\ (pc = "exhausted") => (result = <<>> /\ open_set = <<>>)

\* C5: every call eventually returns, solved or exhausted, and until then it is
\* searching; no other outcome and no error state is reachable, and a returned
\* call takes no further step
Termination == []OutcomeShape /\ [][~Returned]_vars /\ <>Returned

\* a run was solved by popping the goal while other entries were still waiting
TerminationWitness ==
    /\ pc = "solved"
    /\ current # <<>>
    /\ current[1].entry.state = Ascending(size)
    /\ result = current[1].entry.moves
    /\ open_set # <<>>

\* the board of the 3x3 scenario after tile 5 slid into the blank
Scenario3After5 == <<1, 2, 3, 4, 5, 0, 6, 7, 8>>

\* the moves solveSlider returns for the 3x3 scenario
Scenario3Moves == <<4, 1, 2, 3, 5, 4, 3, 2, 1, 3, 4, 5, 2, 1>>

\* C6 as stated: for size 3 and board [1,2,3,4,0,5,6,7,8] solveSlider returns [5]
ScenarioOneMove ==
    (Returned /\ size = 3 /\ start = Scenario3) => result = <<5>>

\* C6 amended: sliding tile 5 gives [1,2,3,4,5,0,6,7,8], which is not the goal; the
\* board is 14 slides from the goal and solveSlider returns the 14 moves
\* [4,1,2,3,5,4,3,2,1,3,4,5,2,1], whose replay gives the goal
ScenarioFourteenMoves ==
    (Returned /\ size = 3 /\ start = Scenario3) =>
        /\ pc = "solved"
        /\ result = Scenario3Moves
        /\ Replay(3, Scenario3, result) = Ascending(3)
        /\ Distance(3, Scenario3, Ascending(3)) = Len(Scenario3Moves)
        /\ Slide(3, Scenario3, 5) = Scenario3After5
        /\ Scenario3After5 # Ascending(3)

\* the run of the 3x3 scenario has returned
ScenarioWitness ==
    /\ pc = "solved"
    /\ size = 3
    /\ start = Scenario3
    /\ Len(result) = 14

\* C8: every entry appended to open_set by a step (the seed, or a neighbor appended
\* while expanding) has a path whose length is best_cost of its board as it was
\* right after the append
InsertionInvariant ==
    \A i \in 1..Len(inserted) :
        Len(inserted[i].entry.moves) = inserted[i].cost

\* an expansion of an entry with cost >= 1 appended at least two neighbors
InsertionWitness ==
    /\ pc = "searching"
    /\ current # <<>>
    /\ current[1].cost >= 1
    /\ Len(inserted) >= 2

\* C9: every board that has been popped as current_state has, from then on, the
\* true shortest distance from the start board as its best_cost
PoppedFinal ==
    \A b \in popped :
        /\ b \in DOMAIN best_cost
        /\ best_cost[b] = Distance(size, start, b)

\* a board popped in an earlier iteration, at distance >= 2, while the search goes on
PoppedFinalWitness ==
    /\ pc = "searching"
    /\ current # <<>>
    /\ \E b \in popped :
          /\ b # current[1].entry.state
          /\ best_cost[b] >= 2
          /\ best_cost[b] = Distance(size, start, b)

\* the entry popped by the last iteration was stale: its path is longer than
\* best_cost of its board was when it was popped
Stale(cur) == cur # <<>> /\ Len(cur[1].entry.moves) > cur[1].cost

\* the entries of a list, as a set
Entries(list) == {list[i] : i \in 1..Len(list)}

\* C10: an iteration that pops a stale entry changes no value of best_cost and
\* appends nothing: it only takes the stale entry out of open_set
StaleHarmless ==
    [][(pc = "searching" /\ open_set # <<>> /\ Stale(current')) =>
          /\ best_cost' = best_cost
          /\ counter' = counter
          /\ inserted' = <<>>
          /\ Entries(open_set') = Entries(open_set) \ {current'[1].entry}
          /\ Len(open_set') = Len(open_set) - 1
          /\ pc' = pc
          /\ result' = result]_vars

\* the last iteration popped a stale entry
StaleWitness == pc = "searching" /\ Stale(current)

\* the entries of open_set were appended in the order of their counters, which
\* are all different and at most the current counter
CountersInOrder ==
    /\ \A i \in 1..Len(open_set) : open_set[i].counter <= counter
    /\ \A i, j \in 1..Len(open_set) :
          (i # j) => open_set[i].counter # open_set[j].counter

\* an iteration removes an entry of smallest priority and, among the entries of
\* that priority, the one of smallest counter; what it appends gets counters
\* above every earlier one, in increasing order
PopsSmallest ==
    (pc = "searching" /\ open_set # <<>> /\ current' # <<>>) =>
        LET cur == current'[1].entry
        IN  /\ cur \in Entries(open_set)
            /\ cur \notin Entries(open_set')
            /\ \A e \in Entries(open_set) :
                  /\ cur.priority <= e.priority
                  /\ (e.priority = cur.priority) => cur.counter <= e.counter
            /\ \A i \in 1..Len(inserted') :
                  /\ inserted'[i].entry.counter > counter
                  /\ \A j \in 1..(i - 1) :
                        inserted'[j].entry.counter < inserted'[i].entry.counter

\* C11: every iteration removes from open_set the entry of smallest priority, the
\* earliest inserted (smallest counter) among those of that priority; counters
\* are unique and increase strictly in insertion order
SelectionAndTieBreak == []CountersInOrder /\ [][PopsSmallest]_vars

\* the last pop left behind an older entry of the same priority and larger counter
SelectionWitness ==
    /\ pc = "searching"
    /\ current # <<>>
    /\ \E e \in Entries(open_set) :
          /\ e \notin {inserted[j].entry : j \in 1..Len(inserted)}
          /\ e.priority = current[1].entry.priority
          /\ e.counter > current[1].entry.counter

\* the cell (0-based index) of board b that holds value v
CellOf(n, b, v) == CHOOSE c \in Cells(n) : b[c + 1] = v

\* the term of value v in heuristic(b)
TermOf(n, b, v) == tile_distance(n, b, CellOf(n, b, v))

\* C12: for every neighbor s' that get_neighbors returns for a board s, the
\* heuristic differs by exactly 1: the term of the moved tile changes by exactly
\* 1, the term of every other value is unchanged, and so heuristic(s) <= 1 + heuristic(s')
HeuristicConsistency ==
    (pc = "neighbors") =>
        \A k \in 1..Len(result) :
            LET s2 == result[k][1]
                t  == result[k][2]
            IN  /\ Abs(heuristic(size, s2) - heuristic(size, start)) = 1
                /\ Abs(TermOf(size, s2, t) - TermOf(size, start, t)) = 1
                /\ \A u \in Cells(size) \ {t} :
                      TermOf(size, s2, u) = TermOf(size, start, u)
                /\ heuristic(size, start) <= 1 + heuristic(size, s2)

\* get_neighbors returned one neighbor with a larger and one with a smaller heuristic
HeuristicConsistencyWitness ==
    /\ pc = "neighbors"
    /\ \E k, l \in 1..Len(result) :
          /\ heuristic(size, result[k][1]) = heuristic(size, start) + 1
          /\ heuristic(size, result[l][1]) = heuristic(size, start) - 1

\* C13: for every board from which the goal is reachable, heuristic returns a
\* natural number that is at most the breadth-first distance to the goal; it
\* returns 0 for the goal, and the term of the blank is 0
HeuristicAdmissible ==
    (pc = "heuristic" /\ Solvable) =>
        /\ result \in Nat
        /\ result <= Distance(size, start, Ascending(size))
        /\ (start = Ascending(size)) => (result = 0)
        /\ TermOf(size, start, 0) = 0

\* heuristic returned a positive value strictly below the distance to the goal
HeuristicAdmissibleWitness ==
    /\ pc = "heuristic"
    /\ Solvable
    /\ result > 0
    /\ result < Distance(size, start, Ascending(size))

\* the number of neighbors the claim gives for a blank at cell c: 2 in a corner,
\* 3 on an edge, 4 in the interior
ClaimedCount(n, c) ==
    LET onRowBorder == (c \div n) \in {0, n - 1}
        onColBorder == (c % n) \in {0, n - 1}
    IN  IF onRowBorder /\ onColBorder THEN 2
        ELSE IF onRowBorder \/ onColBorder THEN 3
        ELSE 4

Exchanged(b, i, j) ==
    [k \in 1..Len(b) |->
        IF k = i + 1 THEN b[j + 1] ELSE IF k = j + 1 THEN b[i + 1] ELSE b[k]]

\* the cells above, below, left and right of cell c, in that order, without
\* those outside the grid
ScanCells(n, c) ==
    SelectSeq(<< <<c - n, (c \div n) > 0>>,
                 <<c + n, (c \div n) < n - 1>>,
                 <<c - 1, (c % n) > 0>>,
                 <<c + 1, (c % n) < n - 1>> >>,
              LAMBDA x : x[2])

\* what get_neighbors is claimed to return for board b
ClaimedNeighbors(n, b) ==
    LET c     == CellOf(n, b, 0)
        cells == ScanCells(n, c)
    IN  [k \in 1..Len(cells) |-> <<Exchanged(b, c, cells[k][1]), b[cells[k][1] + 1]>>]

\* C15: get_neighbors returns, in the scan order up, down, left, right of the
\* blank, one pair per in-bounds cell: the board with the blank and that cell
\* exchanged and nothing else changed, and the tile that was in that cell; the
\* input board is left as it was
NeighborContents ==
    /\ [](pc = "neighbors" => result = ClaimedNeighbors(size, start))
    /\ [][start' = start]_vars

\* get_neighbors returned 3 neighbors: one of the four directions was skipped
NeighborContentsWitness ==
    /\ pc = "neighbors"
    /\ Len(result) = 3
    /\ result = ClaimedNeighbors(size, start)

RECURSIVE ManhattanFrom(_, _, _)
\* the sum, over the tiles v..n*n-1, of the Manhattan distance between the cell
\* that holds the tile and cell number v, where the goal has it
ManhattanFrom(n, b, v) ==
    IF v > n * n - 1
    THEN 0
    ELSE LET c == CellOf(n, b, v)
         IN  Abs((c \div n) - (v \div n)) + Abs((c % n) - (v % n))
             + ManhattanFrom(n, b, v + 1)

\* C16: every entry of open_set has a path whose replay from the start board, by
\* legal slides, gives the entry's board, and a priority equal to the length of
\* its path plus the Manhattan sum of its board
EntriesConsistent ==
    \A i \in 1..Len(open_set) :
        /\ Replay(size, start, open_set[i].moves) = open_set[i].state
        /\ open_set[i].priority
              = Len(open_set[i].moves) + ManhattanFrom(size, open_set[i].state, 1)

\* open_set holds at least three entries, one of them with a path of two or more moves
EntriesConsistentWitness ==
    /\ pc = "searching"
    /\ Len(open_set) >= 3
    /\ \E i \in 1..Len(open_set) :
          /\ Len(open_set[i].moves) >= 2
          /\ Replay(size, start, open_set[i].moves) = open_set[i].state

\* C17: the priority of the entry an iteration pops is never smaller than the
\* priority of the entry the iteration before it popped, so the popped
\* priorities never decrease over a run
PoppedPrioritiesMonotone ==
    [][(pc = "searching" /\ open_set # <<>> /\ current # <<>> /\ current' # <<>>) =>
          current'[1].entry.priority >= current[1].entry.priority]_vars

\* after at least three pops the popped priority is above the first one popped
PoppedPrioritiesWitness ==
    /\ current # <<>>
    /\ Cardinality(popped) >= 3
    /\ current[1].entry.priority > ManhattanFrom(size, start, 1)

\* b holds each of 0..n*n-1 exactly once
WellFormed(n, b) ==
    /\ Len(b) = n * n
    /\ \A v \in Cells(n) : Cardinality({c \in Cells(n) : b[c + 1] = v}) = 1

\* C18: every board in open_set is a permutation of 0..size*size-1 and a key of
\* best_cost, every cell get_neighbors would read for it is inside the board,
\* and the run is never in the error state
TotalOnWellFormed ==
    /\ pc # "error"
    /\ \A i \in 1..Len(open_set) :
          LET b  == open_set[i].state
              rc == divmod(index(b, 0), size)
              adj == adjacent_positions(size, rc[1], rc[2])
          IN  /\ WellFormed(size, b)
              /\ b \in DOMAIN best_cost
              /\ index(b, 0) \in Cells(size)
              /\ \A k \in 1..Len(adj) : (adj[k][1] * size + adj[k][2]) \in Cells(size)

\* an iteration has popped and expanded a board, and several boards are waiting
TotalOnWellFormedWitness ==
    /\ pc = "searching"
    /\ current # <<>>
    /\ current[1].entry.state \in DOMAIN best_cost
    /\ Len(open_set) >= 2
    /\ \A i \in 1..Len(open_set) : WellFormed(size, open_set[i].state)

====
